---- MODULE Spec2Model ----
(***************************************************************************)
(* The edit coordinator of the OpenAPI editor (src/src/store/spec-store.ts) *)
(* wrapped in zundo's temporal middleware, the YAML engine it edits through *)
(* (src/src/lib/yaml-engine.ts) and the debounced validation pipeline       *)
(* (src/src/lib/validator.ts).                                              *)
(*                                                                         *)
(* A YAML text is a sequence of lines; a Document is a heap object whose    *)
(* content is the ordered list of its pairs (pre-order, each keyed by its   *)
(* path); the projection ("spec") is a plain map from paths to values that  *)
(* carries the identity of the JS object (a reference), because the         *)
(* history's equality compares projections with ===.                        *)
(***************************************************************************)
EXTENDS Integers, Sequences, FiniteSets, TLC

\* ------------------------------------------------------------------ bounds
\* Number of Document/projection objects a run may allocate (each successful
\* open, new and applied edit allocates one).
MaxRefs == 3
\* Validation runs that may be in flight at once.
MaxRunning == 1
\* The same, in the runs that record the calls.
MaxCallRefs == 2
\* The same, in the runs in which the validation timer fires.
MaxValidatedRefs == 3
\* The same, in the runs that edit one document over and over.
LongRefs == 52
\* The most validateSpec runs in flight at once where runs overlap.
MaxOverlap == 2
\* The same, in the runs that save, and in the runs of the file actions.
MaxSaveRefs == 3
MaxFileRefs == 3
\* The same, in the runs that reset the coordinator and edit the root.
MaxCoordinatorRefs == 3
\* Lines that do not lex before and after a text handed to validateSpec.
MaxJunk == 3
\* Segments of a path handed to pathToPointer.
MaxPathLen == 2

\* ------------------------------------------------------------- JS values
Null == "<null>"
Undefined == "<undefined>"
MapVal == "<map>"
EmptyObject == "{}"

Last(s) == s[Len(s)]
Front(s) == SubSeq(s, 1, Len(s) - 1)
Reverse(s) == [i \in 1..Len(s) |-> s[Len(s) + 1 - i]]
IsPrefix(p, q) == Len(p) <= Len(q) /\ SubSeq(q, 1, Len(p)) = p
IsStrictPrefix(p, q) == Len(p) < Len(q) /\ SubSeq(q, 1, Len(p)) = p

\* --------------------------------------------------------- types/editor.ts
\* A string is the sequence of its characters; a run of characters other
\* than ~ and / may stand as one element ("info").
\* String.prototype.replace with a global pattern: left to right, without
\* rescanning what was put in.
RECURSIVE ReplaceAll(_, _, _)
ReplaceAll(str, pattern, replacement) ==
  IF Len(str) < Len(pattern) THEN str
  ELSE IF SubSeq(str, 1, Len(pattern)) = pattern
    THEN replacement \o ReplaceAll(SubSeq(str, Len(pattern) + 1, Len(str)), pattern, replacement)
  ELSE <<Head(str)>> \o ReplaceAll(Tail(str), pattern, replacement)

\* Array.prototype.join.
RECURSIVE Join(_, _)
Join(strs, separator) ==
  IF Len(strs) = 0 THEN <<>>
  ELSE IF Len(strs) = 1 THEN strs[1]
  ELSE strs[1] \o <<separator>> \o Join(Tail(strs), separator)

\* String.prototype.split on a one-character separator ("" splits to [""]).
RECURSIVE Split(_, _)
Split(str, separator) ==
  IF \A i \in 1..Len(str) : str[i] # separator THEN <<str>>
  ELSE LET at == CHOOSE i \in 1..Len(str) :
                   str[i] = separator /\ \A j \in 1..(i - 1) : str[j] # separator
       IN <<SubSeq(str, 1, at - 1)>> \o Split(SubSeq(str, at + 1, Len(str)), separator)

\* RFC 6901 encoding: ~ -> ~0, then / -> ~1.
pathToPointer(path) ==
  IF Len(path) = 0 THEN <<>>
  ELSE <<"/">> \o
       Join([i \in 1..Len(path) |->
               ReplaceAll(ReplaceAll(path[i], <<"~">>, <<"~", "0">>), <<"/">>, <<"~", "1">>)],
            "/")

\* A decoding that replaces ~0 before ~1.
pointerToPathTildeFirst(pointer) ==
  IF pointer = <<>> THEN <<>>
  ELSE LET segments == Split(Tail(pointer), "/")
       IN [i \in 1..Len(segments) |->
             ReplaceAll(ReplaceAll(segments[i], <<"~", "0">>, <<"~">>), <<"~", "1">>, <<"/">>)]

\* RFC 6901 decoding: ~1 -> /, then ~0 -> ~.
pointerToPath(pointer) ==
  IF pointer = <<>> THEN <<>>
  ELSE LET segments == Split(Tail(pointer), "/")
       IN [i \in 1..Len(segments) |->
             ReplaceAll(ReplaceAll(segments[i], <<"~", "1">>, <<"/">>), <<"~", "0">>, <<"~">>)]

\* -------------------------------------------------------------- YAML text
\* A line of YAML text: "pair" is `key: val` at an indent (val "" opens a
\* nested block), "scalar" is a bare scalar, "junk" does not lex.
PairLine(ind, key, val) == [kind |-> "pair", ind |-> ind, key |-> key, val |-> val]
ScalarLine(val) == [kind |-> "scalar", ind |-> 0, key |-> "", val |-> val]
JunkLine == [kind |-> "junk", ind |-> 0, key |-> "{ broken: [", val |-> ""]

\* The Document content: root kind and the pairs in document order.
Entry(path, val) == [path |-> path, val |-> val]
MapContents(entries) == [root |-> "map", scalar |-> "", entries |-> entries]
NullContents == [root |-> "null", scalar |-> "", entries |-> <<>>]
ScalarContents(v) == [root |-> "scalar", scalar |-> v, entries |-> <<>>]

\* parseDocument's syntax errors: one per line that does not lex.
YamlErrors(text) == {i \in 1..Len(text) : text[i].kind = "junk"}

\* The line that opens the block line i sits in (0 at the top level).
ParentLine(text, i) ==
  LET above == {j \in 1..(i - 1) : text[j].ind < text[i].ind}
  IN IF above = {} THEN 0 ELSE CHOOSE j \in above : \A k \in above : k <= j

RECURSIVE LinePath(_, _)
LinePath(text, i) ==
  IF ParentLine(text, i) = 0 THEN <<text[i].key>>
  ELSE Append(LinePath(text, ParentLine(text, i)), text[i].key)

LineOpensBlock(text, i) == i < Len(text) /\ text[i + 1].ind > text[i].ind

LineValue(text, i) ==
  IF text[i].val = EmptyObject THEN MapVal
  ELSE IF text[i].val = "" THEN (IF LineOpensBlock(text, i) THEN MapVal ELSE Null)
  ELSE IF text[i].val = "null" THEN Null
  ELSE text[i].val

\* yaml's parseDocument (composer) on error-free text.
ComposeContents(text) ==
  IF Len(text) = 0 THEN NullContents
  ELSE IF text[1].kind = "scalar" THEN
    (IF text[1].val = "null" THEN NullContents
     ELSE IF text[1].val = EmptyObject THEN MapContents(<<>>)
     ELSE ScalarContents(text[1].val))
  ELSE MapContents([i \in 1..Len(text) |-> Entry(LinePath(text, i), LineValue(text, i))])

\* Document.toJSON(): the plain value. A map becomes the function from the
\* paths of its pairs to their values; null and scalars are not objects.
EmptyMap == [p \in {} |-> ""]
toJSON(contents) ==
  IF contents.root = "map"
    THEN [kind |-> "object",
          map |-> [p \in {contents.entries[i].path : i \in 1..Len(contents.entries)} |->
                     LET i == CHOOSE j \in 1..Len(contents.entries) : contents.entries[j].path = p
                     IN contents.entries[i].val]]
    ELSE [kind |-> contents.root, map |-> EmptyMap]

HasChildren(entries, i) == i < Len(entries) /\ IsStrictPrefix(entries[i].path, entries[i + 1].path)

ScalarText(v) == IF v = Undefined \/ v = Null THEN "null" ELSE v

\* Document.toString().
toString(contents) ==
  IF contents.root = "null" THEN <<ScalarLine("null")>>
  ELSE IF contents.root = "scalar" THEN <<ScalarLine(contents.scalar)>>
  ELSE IF contents.entries = <<>> THEN <<ScalarLine(EmptyObject)>>
  ELSE [i \in 1..Len(contents.entries) |->
         LET e == contents.entries[i]
         IN PairLine(Len(e.path) - 1, Last(e.path),
                     IF e.val = MapVal
                       THEN (IF HasChildren(contents.entries, i) THEN "" ELSE EmptyObject)
                       ELSE ScalarText(e.val))]

\* ------------------------------------------------------ yaml-engine.ts
\* parseYaml: syntax errors, then a root that is not an object, fail.
parseYaml(content) ==
  IF YamlErrors(content) # {} THEN [ok |-> FALSE, error |-> "syntax", contents |-> NullContents]
  ELSE IF toJSON(ComposeContents(content)).kind # "object"
    THEN [ok |-> FALSE, error |-> "YAML did not parse to an object", contents |-> NullContents]
  ELSE [ok |-> TRUE, error |-> "", contents |-> ComposeContents(content)]

stringifyYaml(contents) == toString(contents)

documentToSpec(contents) == toJSON(contents)

EntryIndex(entries, path) ==
  IF \E i \in 1..Len(entries) : entries[i].path = path
    THEN CHOOSE i \in 1..Len(entries) : entries[i].path = path
    ELSE 0

\* The node a path prefix resolves to: "map", "scalar" or "undefined".
NodeKind(entries, path) ==
  IF EntryIndex(entries, path) = 0 THEN "undefined"
  ELSE IF entries[EntryIndex(entries, path)].val = MapVal THEN "map" ELSE "scalar"

\* Index of the last pair of the block under `path` (Len for the root).
BlockEnd(entries, path) ==
  IF path = <<>> THEN Len(entries)
  ELSE CHOOSE i \in 1..Len(entries) :
         /\ IsPrefix(path, entries[i].path)
         /\ \A j \in 1..Len(entries) : IsPrefix(path, entries[j].path) => j <= i

SelectSeqNot(entries, path) ==
  SelectSeq(entries, LAMBDA e : ~IsStrictPrefix(path, e.path))

\* The stored form of a value handed to set(): {} is an empty map.
NodeValue(value) == IF value = EmptyObject THEN MapVal ELSE value

\* The contents collectionFromPath/createNode builds for a value.
ValueContents(value) ==
  IF value = EmptyObject THEN MapContents(<<>>)
  ELSE IF value = Undefined \/ value = Null THEN NullContents
  ELSE ScalarContents(value)

\* Document.setIn: the empty path replaces the contents; otherwise
\* Collection.setIn walks the path from the root map, creates the missing
\* maps (collectionFromPath) and throws on a scalar in the way.
setIn(contents, path, value) ==
  LET es == contents.entries
      n == Len(path)
      Prefix(k) == SubSeq(path, 1, k)
      missing == {k \in 1..n : EntryIndex(es, Prefix(k)) = 0}
      first == IF missing = {} THEN n + 1 ELSE CHOOSE k \in missing : \A j \in missing : k <= j
      blocked == \E k \in 1..(n - 1) : k < first /\ NodeKind(es, Prefix(k)) = "scalar"
  IN IF path = <<>> THEN [ok |-> TRUE, contents |-> ValueContents(value)]
     ELSE IF contents.root = "scalar" \/ blocked THEN [ok |-> FALSE, contents |-> contents]
     ELSE IF first = n + 1 THEN
       \* the pair exists: overwrite its value in place, dropping its old children
       LET kept == SelectSeqNot(es, path)
           at == EntryIndex(kept, path)
       IN [ok |-> TRUE,
           contents |-> MapContents([kept EXCEPT ![at] = Entry(path, NodeValue(value))])]
     ELSE
       \* push the new pair(s) at the end of the innermost existing map
       LET at == BlockEnd(es, Prefix(first - 1))
           created == [k \in 1..(n - first + 1) |->
                         IF first + k - 1 = n THEN Entry(path, NodeValue(value))
                         ELSE Entry(Prefix(first + k - 1), MapVal)]
       IN [ok |-> TRUE,
           contents |-> MapContents(SubSeq(es, 1, at) \o created \o SubSeq(es, at + 1, Len(es)))]

\* A deleteIn that removes the value of the pair and leaves its key.
deleteInLeavingKey(contents, path) ==
  LET es == contents.entries
  IN IF path = <<>> \/ contents.root # "map" \/ EntryIndex(es, path) = 0
       THEN [result |-> "false", contents |-> contents]
       ELSE [result |-> "true",
             contents |-> MapContents([SelectSeqNot(es, path) EXCEPT
                                         ![EntryIndex(SelectSeqNot(es, path), path)] =
                                             Entry(path, Null)])]

\* Document.deleteIn: "true" (removed), "false" (no such key) or "throw"
\* (a parent on the way is not a collection).
deleteIn(contents, path) ==
  LET es == contents.entries
      n == Len(path)
      Prefix(k) == SubSeq(path, 1, k)
  IN IF path = <<>> THEN
       (IF contents.root = "null" THEN [result |-> "false", contents |-> contents]
        ELSE [result |-> "true", contents |-> NullContents])
     ELSE IF contents.root # "map" THEN [result |-> "throw", contents |-> contents]
     ELSE IF \E k \in 1..(n - 1) : NodeKind(es, Prefix(k)) # "map"
       THEN [result |-> "throw", contents |-> contents]
     ELSE IF EntryIndex(es, path) = 0 THEN [result |-> "false", contents |-> contents]
     ELSE [result |-> "true",
           contents |-> MapContents(SelectSeq(es, LAMBDA e : ~IsPrefix(path, e.path)))]

\* The three editing wrappers act on a Document of the heap, in place.
applyEdit(h, document, path, value) ==
  LET r == setIn(h[document], path, value)
  IN [ok |-> r.ok, heap |-> [h EXCEPT ![document] = r.contents]]

addToMap(h, document, path, key, value) ==
  LET r == setIn(h[document], Append(path, key), value)
  IN [ok |-> r.ok, heap |-> [h EXCEPT ![document] = r.contents]]

\* A deleteAtPath that reports a removal whatever deleteIn found.
deleteAtPathReportsTrue(h, document, path) ==
  LET r == deleteIn(h[document], path)
  IN [result |-> "true", heap |-> [h EXCEPT ![document] = r.contents]]

deleteAtPath(h, document, path) ==
  LET r == deleteIn(h[document], path)
  IN [result |-> r.result, heap |-> [h EXCEPT ![document] = r.contents]]

\* A cloneDocument that hands back the Document it was given.
cloneDocumentShared(h, document) == [ok |-> TRUE, heap |-> h, document |-> document]

\* cloneDocument: a new Document parsed from the string output of the old
\* one; throws when that does not parse.
cloneDocument(h, document) ==
  LET outcome == parseYaml(stringifyYaml(h[document]))
  IN IF outcome.ok
       THEN [ok |-> TRUE, heap |-> Append(h, outcome.contents), document |-> Len(h) + 1]
       ELSE [ok |-> FALSE, heap |-> h, document |-> 0]

\* ---------------------------------------------------------- validator.ts
ValidationError(message, path) == [message |-> message, path |-> path, severity |-> "error"]

emptyCounts == [error |-> 0, warning |-> 0, info |-> 0]

CountSeverity(errors, sev) == Cardinality({i \in 1..Len(errors) : errors[i].severity = sev})

\* The details SwaggerParser.validate rejects a plain object with (none when
\* it passes the schema), each with the JSON pointer of the instance.
SwaggerDetails(value) ==
  LET m == value.map
      Has(q) == q \in DOMAIN m
      info ==
        IF ~Has(<<"info">>)
          THEN <<[message |-> "must have required property 'info'", instancePath |-> <<>>]>>
        ELSE IF m[<<"info">>] # MapVal
          THEN <<[message |-> "must be object", instancePath |-> <<"/", "info">>]>>
        ELSE IF ~Has(<<"info", "title">>)
          THEN <<[message |-> "must have required property 'title'",
                  instancePath |-> <<"/", "info">>]>>
        ELSE IF m[<<"info", "title">>] \in {Null, Undefined, MapVal}
          THEN <<[message |-> "must be string",
                  instancePath |-> <<"/", "info", "/", "title">>]>>
        ELSE <<>>
      paths ==
        IF Has(<<"paths">>) /\ m[<<"paths">>] # MapVal
          THEN <<[message |-> "must be object", instancePath |-> <<"/", "paths">>]>>
        ELSE <<>>
  IN info \o paths

SwaggerRecognises(value) ==
  \/ <<"openapi">> \in DOMAIN value.map /\ value.map[<<"openapi">>] \in {"3.1.0", "3.0.3"}
  \/ <<"swagger">> \in DOMAIN value.map /\ value.map[<<"swagger">>] = "2.0"

\* The result for a text with syntax errors that reports the first one only,
\* under the count of all.
SyntaxErrorsResultFirstOnly(yamlString) ==
  [errors |-> <<ValidationError("syntax", <<>>)>>,
   counts |-> [error |-> Cardinality(YamlErrors(yamlString)), warning |-> 0, info |-> 0]]

\* doc.errors.length > 0: one error per syntax error, each at the root.
SyntaxErrorsResult(yamlString) ==
  [errors |-> [i \in 1..Cardinality(YamlErrors(yamlString)) |-> ValidationError("syntax", <<>>)],
   counts |-> [error |-> Cardinality(YamlErrors(yamlString)), warning |-> 0, info |-> 0]]

\* A result for a root that is no object that reports nothing.
NotAnObjectResultEmpty == [errors |-> <<>>, counts |-> emptyCounts]

\* !spec || typeof spec !== "object".
NotAnObjectResult ==
  [errors |-> <<ValidationError("YAML did not parse to an object", <<>>)>>,
   counts |-> [error |-> 1, warning |-> 0, info |-> 0]]

\* counts[e.severity]++ over the errors, from emptyCounts().
CountErrors(errors) ==
  [sev \in DOMAIN emptyCounts |-> emptyCounts[sev] + CountSeverity(errors, sev)]

\* SwaggerParser.validate on the plain object: no errors when it resolves; when
\* it rejects, one error per detail, or the one of the message without details.
SwaggerResult(value) ==
  LET details == IF SwaggerRecognises(value) THEN SwaggerDetails(value) ELSE <<>>
      errors == IF details # <<>>
                  THEN [i \in 1..Len(details) |->
                          ValidationError(details[i].message,
                                          pointerToPath(details[i].instancePath))]
                  ELSE <<ValidationError("not a valid OpenAPI definition", <<>>)>>
  IN IF SwaggerRecognises(value) /\ details = <<>>
       THEN [errors |-> <<>>, counts |-> emptyCounts]
       ELSE [errors |-> errors, counts |-> CountErrors(errors)]

validateSpec(yamlString) ==
  IF YamlErrors(yamlString) # {} THEN SyntaxErrorsResult(yamlString)
  ELSE IF toJSON(ComposeContents(yamlString)).kind # "object" THEN NotAnObjectResult
  ELSE SwaggerResult(toJSON(ComposeContents(yamlString)))

\* ------------------------------------------------------------ spec-store.ts
NoPath == <<"<null>">>
NoTimer == 0

NullValue == [kind |-> "null", map |-> EmptyMap]
NullSpec == [ref |-> 0, value |-> NullValue]

emptyValidation == [errors |-> <<>>, counts |-> [error |-> 0, warning |-> 0, info |-> 0]]

initialState ==
  [spec |-> NullSpec, yamlDocument |-> 0, filePath |-> Null, isDirty |-> FALSE,
   selectedPath |-> NoPath, validation |-> emptyValidation]

\* lib/spec-template: the fixed minimal valid document.
SPEC_TEMPLATE ==
  <<PairLine(0, "openapi", "3.1.0"), PairLine(0, "info", ""), PairLine(1, "title", "My API"),
    PairLine(1, "version", "1.0.0"), PairLine(0, "paths", EmptyObject)>>

\* String(spec.openapi).startsWith("3.1") over the version strings in use.
StartsWith31(v) == v \in {"3.1.0", "3.1.1"}

VARIABLES
  store,          \* the zustand state: spec, yamlDocument, filePath, isDirty, selectedPath, validation
  heap,           \* the Document objects, by reference
  nextRef,        \* the next projection object's identity
  pastStates,     \* zundo: the undo stack, oldest first
  futureStates,   \* zundo: the redo stack, next redo last
  debounceTimer,  \* validator.ts: the handle of the last timer set, or NoTimer
  timers,         \* the event loop: the timers set and not yet fired or cleared
  running,        \* the texts of the validation runs in flight
  lastCall,       \* the last call made and how it returned
  loadedDocument, \* the Document the most recent successful load installed (0: none)
  conversion,     \* a path on its way through pathToPointer and pointerToPath
  savedText,      \* the text most recently loaded, or written by a save
  task            \* the file action in flight: where it waits, and its locals

vars == <<store, heap, nextRef, pastStates, futureStates, debounceTimer, timers, running,
          lastCall, loadedDocument, conversion, savedText, task>>

\* No file action is in flight.
NoTask == [op |-> "none", pc |-> "idle", confirmed |-> FALSE, path |-> "", yamlString |-> <<>>]

\* No path is being converted.
NoConversion == [stage |-> "none", path |-> <<>>, pointer |-> <<>>, decoded |-> <<>>]

\* The record of a call; calls are recorded only in the runs that start with
\* a recorded call (InitCalls), so that the other runs do not tell states
\* apart by the call that led to them.
NoCalls == [op |-> "", outcome |-> ""]
Call(op, outcome) == IF lastCall = NoCalls THEN NoCalls ELSE [op |-> op, outcome |-> outcome]

\* ---- zundo's temporal middleware, with the options of spec-store.ts
\* A partialize that forgets the dirty flag.
partializeWithoutDirty(state) ==
  [spec |-> state.spec, yamlDocument |-> state.yamlDocument]

\* A partialize that also tracks the selection.
partializeWithSelection(state) ==
  [spec |-> state.spec, yamlDocument |-> state.yamlDocument, isDirty |-> state.isDirty,
   selectedPath |-> state.selectedPath]

partialize(state) ==
  [spec |-> state.spec, yamlDocument |-> state.yamlDocument, isDirty |-> state.isDirty]

\* An equality that compares the whole tracked state, dirty flag included.
equalityOfAllFields(pastState, currentState) == pastState = currentState

equality(pastState, currentState) == pastState.spec.ref = currentState.spec.ref

\* The `limit` option: not given (0 stands for undefined).
limit == 0

\* zustand's set: a shallow merge of the partial state.
Merge(state, partial) ==
  [f \in DOMAIN state |-> IF f \in DOMAIN partial THEN partial[f] ELSE state[f]]

\* _handleSet: push the state before the set, drop the redo stack.
handleSet(past, pastState) ==
  [pastStates |-> Append(IF limit # 0 /\ Len(past) >= limit THEN Tail(past) ELSE past, pastState),
   futureStates |-> <<>>]

\* A set that records the previous state but keeps the redo stack.
setKeepingFuture(state, past, future, partial) ==
  LET pastState == partialize(state)
      newState == Merge(state, partial)
  IN IF equality(pastState, partialize(newState))
       THEN [store |-> newState, pastStates |-> past, futureStates |-> future]
       ELSE [store |-> newState,
             pastStates |-> handleSet(past, pastState).pastStates,
             futureStates |-> future]

\* The wrapped set: merge, then record the previous state unless equal.
set(state, past, future, partial) ==
  LET pastState == partialize(state)
      newState == Merge(state, partial)
      currentState == partialize(newState)
  IN IF equality(pastState, currentState)
       THEN [store |-> newState, pastStates |-> past, futureStates |-> future]
       ELSE [store |-> newState,
             pastStates |-> handleSet(past, pastState).pastStates,
             futureStates |-> handleSet(past, pastState).futureStates]

\* temporal.undo(): restore the newest past state through the unwrapped set.
undo(state, past, future) ==
  IF past = <<>> THEN [store |-> state, pastStates |-> past, futureStates |-> future]
  ELSE [store |-> Merge(state, Last(past)),
        pastStates |-> Front(past),
        futureStates |-> Append(future, partialize(state))]

\* A redo that takes the oldest undone state instead of the newest.
redoOldest(state, past, future) ==
  IF future = <<>> THEN [store |-> state, pastStates |-> past, futureStates |-> future]
  ELSE [store |-> Merge(state, Head(future)),
        pastStates |-> Append(past, partialize(state)),
        futureStates |-> Tail(future)]

\* temporal.redo(): the mirror.
redo(state, past, future) ==
  IF future = <<>> THEN [store |-> state, pastStates |-> past, futureStates |-> future]
  ELSE [store |-> Merge(state, Last(future)),
        pastStates |-> Append(past, partialize(state)),
        futureStates |-> Front(future)]

Install(r) ==
  /\ store' = r.store
  /\ pastStates' = r.pastStates
  /\ futureStates' = r.futureStates

\* setTimeout(callback, delayMs): the timer of a request, by its handle.
\* Every request follows the allocation of a projection object, and the
\* handles are numbered like them.
Timer(yamlString) == [id |-> nextRef, text |-> yamlString]

\* clearTimeout(handle): no effect on a timer that fired or was cleared.
clearTimeout(pending, handle) == {t \in pending : t.id # handle}

\* A validateSpecDebounced that sets the new timer and clears none.
validateSpecDebouncedWithoutClear(yamlString) ==
  /\ timers' = timers \cup {Timer(yamlString)}
  /\ debounceTimer' = Timer(yamlString).id

\* validateSpecDebounced: clear the timer of the handle, set the new one.
validateSpecDebounced(yamlString) ==
  /\ timers' = (IF debounceTimer # NoTimer THEN clearTimeout(timers, debounceTimer) ELSE timers)
                  \cup {Timer(yamlString)}
  /\ debounceTimer' = Timer(yamlString).id

\* triggerValidation(doc, setValidation) on a heap h.
triggerValidation(h, doc) ==
  IF doc = 0 THEN UNCHANGED <<debounceTimer, timers>>
  ELSE validateSpecDebounced(stringifyYaml(h[doc]))

\* ---- inputs
Title == <<"info", "title">>

SpecText(version, title) ==
  <<PairLine(0, "openapi", version), PairLine(0, "info", ""), PairLine(1, "title", title),
    PairLine(0, "paths", EmptyObject)>>

VALID_YAML == SpecText("3.1.0", "Test API")
INVALID_YAML == <<JunkLine>>

OLD_YAML == SpecText("3.0.3", "Old API")

SCALAR_YAML == <<ScalarLine("hello")>>

FileContents == {VALID_YAML, OLD_YAML, INVALID_YAML, SCALAR_YAML}

ClipboardTexts == {SpecText("3.1.0", "Pasted API")}

FilePaths == {"/test/file.yaml"}

UpdateInputs == {<<Title, "A">>, <<Title, "B">>}

AddInputs == {<<(<<"paths">>), "/x", EmptyObject>>}

RemovePaths == {<<"paths", "/x">>, <<"paths", "/nonexistent">>, <<"components", "schemas", "X">>}

SelectablePaths == {NoPath, <<"paths", "/x">>}

\* Texts for validateSpec, one per branch: valid (3.1 and 3.0), a scalar, null
\* and empty roots, an empty map, no info, a scalar info, no title, a scalar
\* paths beside no title, an unknown version.
ValidateBases ==
  {VALID_YAML, OLD_YAML, SCALAR_YAML, <<ScalarLine("null")>>, <<>>, <<ScalarLine(EmptyObject)>>,
   <<PairLine(0, "openapi", "3.1.0"), PairLine(0, "paths", EmptyObject)>>,
   <<PairLine(0, "openapi", "3.1.0"), PairLine(0, "info", "text")>>,
   <<PairLine(0, "openapi", "3.1.0"), PairLine(0, "info", EmptyObject)>>,
   <<PairLine(0, "openapi", "3.1.0"), PairLine(0, "info", EmptyObject),
     PairLine(0, "paths", "text")>>,
   SpecText("9.9.9", "Unknown API")}

JunkLines(n) == [i \in 1..n |-> JunkLine]

\* The same texts with lines that do not lex before and after.
ValidateTexts ==
  {JunkLines(before) \o text \o JunkLines(after) :
     before \in 0..MaxJunk, after \in 0..MaxJunk, text \in ValidateBases}

\* The removal that makes the document invalid, for the validation runs.
ValidatedRemovals == {Title}

\* The edits at the ends of the input space: an absent value, the root path.
CoordinatorUpdates == {<<Title, "A">>, <<Title, Undefined>>}

CoordinatorRemovals == {<<>>, Title}

\* ---- the operations
Init ==
  /\ store = initialState
  /\ heap = <<>>
  /\ nextRef = 1
  /\ pastStates = <<>>
  /\ futureStates = <<>>
  /\ debounceTimer = NoTimer
  /\ timers = {}
  /\ running = {}
  /\ lastCall = NoCalls
  /\ loadedDocument = 0
  /\ conversion = NoConversion
  /\ savedText = <<>>
  /\ task = NoTask

\* A version test that accepts every declared version.
AnyVersion(value) == <<"openapi">> \in DOMAIN value.map

\* The version test of openFile on a parsed projection.
SupportedVersion(value) ==
  /\ <<"openapi">> \in DOMAIN value.map
  /\ StartsWith31(value.map[<<"openapi">>])

openFile(path, content) ==
  LET outcome == parseYaml(content)
  IN IF ~outcome.ok THEN
       /\ lastCall' = Call("openFile", "throw: Failed to parse YAML")
       /\ UNCHANGED <<store, heap, nextRef, pastStates, futureStates, debounceTimer, timers, running, loadedDocument, conversion, savedText>>
     ELSE IF ~SupportedVersion(toJSON(outcome.contents)) THEN
       /\ lastCall' = Call("openFile", "throw: Not a valid OpenAPI 3.1 specification")
       /\ UNCHANGED <<store, heap, nextRef, pastStates, futureStates, debounceTimer, timers, running, loadedDocument, conversion, savedText>>
     ELSE
       /\ heap' = Append(heap, outcome.contents)
       /\ nextRef' = nextRef + 1
       /\ Install(set(store, pastStates, futureStates,
                      [spec |-> [ref |-> nextRef, value |-> toJSON(outcome.contents)],
                       yamlDocument |-> Len(heap) + 1,
                       filePath |-> path,
                       isDirty |-> FALSE,
                       selectedPath |-> NoPath,
                       validation |-> emptyValidation]))
       /\ triggerValidation(heap', Len(heap) + 1)
       /\ lastCall' = Call("openFile", "ok")
       /\ loadedDocument' = Len(heap) + 1
       /\ savedText' = content
       /\ UNCHANGED <<running, conversion>>

newSpec ==
  LET outcome == parseYaml(SPEC_TEMPLATE)
  IN IF ~outcome.ok THEN
       /\ lastCall' = Call("newSpec", "throw: Invalid spec template")
       /\ UNCHANGED <<store, heap, nextRef, pastStates, futureStates, debounceTimer, timers, running, loadedDocument, conversion, savedText>>
     ELSE
       /\ heap' = Append(heap, outcome.contents)
       /\ nextRef' = nextRef + 1
       /\ Install(set(store, pastStates, futureStates,
                      [spec |-> [ref |-> nextRef, value |-> toJSON(outcome.contents)],
                       yamlDocument |-> Len(heap) + 1,
                       filePath |-> Null,
                       isDirty |-> FALSE,
                       selectedPath |-> NoPath,
                       validation |-> emptyValidation]))
       /\ triggerValidation(heap', Len(heap) + 1)
       /\ lastCall' = Call("newSpec", "ok")
       /\ loadedDocument' = Len(heap) + 1
       /\ savedText' = SPEC_TEMPLATE
       /\ UNCHANGED <<running, conversion>>

\* pasteFromClipboardAction: openFile("", text) on a non-empty clipboard.
pasteFromClipboardAction(text) ==
  /\ text # <<>>
  /\ openFile("", text)
  /\ UNCHANGED task

NoDocument == store.spec.ref = 0 \/ store.yamlDocument = 0

\* An edit that installs the new pair and leaves the dirty flag as it was.
CommitEditKeepingDirty(op, h, newDoc) ==
  /\ heap' = h
  /\ nextRef' = nextRef + 1
  /\ Install(set(store, pastStates, futureStates,
                 [spec |-> IF documentToSpec(h[newDoc]).kind = "null" THEN NullSpec
                           ELSE [ref |-> nextRef, value |-> documentToSpec(h[newDoc])],
                  yamlDocument |-> newDoc]))
  /\ triggerValidation(h, newDoc)
  /\ lastCall' = Call(op, "ok")
  /\ UNCHANGED <<running, loadedDocument, conversion, savedText, task>>

\* The common tail of the three edits: set the new pair, mark dirty, validate.
CommitEdit(op, h, newDoc) ==
  /\ heap' = h
  /\ nextRef' = nextRef + 1
  /\ Install(set(store, pastStates, futureStates,
                 [spec |-> IF documentToSpec(h[newDoc]).kind = "null" THEN NullSpec
                           ELSE [ref |-> nextRef, value |-> documentToSpec(h[newDoc])],
                  yamlDocument |-> newDoc,
                  isDirty |-> TRUE]))
  /\ triggerValidation(h, newDoc)
  /\ lastCall' = Call(op, "ok")
  /\ UNCHANGED <<running, loadedDocument, conversion, savedText, task>>

\* A return that marks the state dirty on its way out.
ReturnedMarkingDirty(op, outcome) ==
  /\ lastCall' = Call(op, outcome)
  /\ store' = [store EXCEPT !.isDirty = TRUE]
  /\ UNCHANGED <<heap, nextRef, pastStates, futureStates, debounceTimer, timers, running,
                 loadedDocument, conversion, savedText, task>>

Returned(op, outcome) ==
  /\ lastCall' = Call(op, outcome)
  /\ UNCHANGED <<store, heap, nextRef, pastStates, futureStates, debounceTimer, timers, running, loadedDocument, conversion, savedText, task>>

updateField(path, value) ==
  IF NoDocument THEN Returned("updateField", "no document")
  ELSE \E clone \in {cloneDocument(heap, store.yamlDocument)} :
          IF ~clone.ok THEN Returned("updateField", "throw: Failed to clone YAML document")
          ELSE \E edit \in {applyEdit(clone.heap, clone.document, path, value)} :
                  IF ~edit.ok THEN Returned("updateField", "throw: Expected YAML collection")
                  ELSE CommitEdit("updateField", edit.heap, clone.document)

addElement(path, key, value) ==
  IF NoDocument THEN Returned("addElement", "no document")
  ELSE \E clone \in {cloneDocument(heap, store.yamlDocument)} :
          IF ~clone.ok THEN Returned("addElement", "throw: Failed to clone YAML document")
          ELSE \E edit \in {addToMap(clone.heap, clone.document, path, key, value)} :
                  IF ~edit.ok THEN Returned("addElement", "throw: Expected YAML collection")
                  ELSE CommitEdit("addElement", edit.heap, clone.document)

removeElement(path) ==
  IF NoDocument THEN Returned("removeElement", "no document")
  ELSE \E clone \in {cloneDocument(heap, store.yamlDocument)} :
          IF ~clone.ok THEN Returned("removeElement", "throw: Failed to clone YAML document")
          ELSE \E edit \in {deleteAtPath(clone.heap, clone.document, path)} :
                  IF edit.result = "throw" THEN Returned("removeElement", "throw: Expected YAML collection")
                  ELSE IF edit.result = "false" THEN Returned("removeElement", "not deleted")
                  ELSE CommitEdit("removeElement", edit.heap, clone.document)

setSelectedPath(path) ==
  /\ Install(set(store, pastStates, futureStates, [selectedPath |-> path]))
  /\ lastCall' = Call("setSelectedPath", "ok")
  /\ UNCHANGED <<heap, nextRef, debounceTimer, timers, running, loadedDocument, conversion, savedText, task>>

setValidation(result) ==
  Install(set(store, pastStates, futureStates, [validation |-> result]))

markClean ==
  /\ Install(set(store, pastStates, futureStates, [isDirty |-> FALSE]))
  /\ lastCall' = Call("markClean", "ok")
  /\ UNCHANGED <<heap, nextRef, debounceTimer, timers, running, loadedDocument, conversion, savedText, task>>

reset ==
  /\ Install(set(store, pastStates, futureStates, initialState))
  /\ lastCall' = Call("reset", "ok")
  /\ UNCHANGED <<heap, nextRef, debounceTimer, timers, running, loadedDocument, conversion, savedText, task>>

undoAction ==
  /\ Install(undo(store, pastStates, futureStates))
  /\ lastCall' = Call("undo", IF pastStates = <<>> THEN "nothing to undo" ELSE "ok")
  /\ UNCHANGED <<heap, nextRef, debounceTimer, timers, running, loadedDocument, conversion, savedText, task>>

redoAction ==
  /\ Install(redo(store, pastStates, futureStates))
  /\ lastCall' = Call("redo", IF futureStates = <<>> THEN "nothing to redo" ELSE "ok")
  /\ UNCHANGED <<heap, nextRef, debounceTimer, timers, running, loadedDocument, conversion, savedText, task>>

\* A timer fires: the run on its text starts (await validateSpec). The
\* handle stays in debounceTimer.
\* A timer that fires and starts no run.
TimerFiresWithoutRun(timer) ==
  /\ timer \in timers
  /\ timers' = timers \ {timer}
  /\ UNCHANGED <<store, heap, nextRef, pastStates, futureStates, debounceTimer, running, lastCall,
                 loadedDocument, conversion, savedText, task>>

\* The debounce delay passes: the callback starts validateSpec(yamlString).
TimerFires(timer) ==
  /\ timer \in timers
  /\ timers' = timers \ {timer}
  /\ running' = running \cup {timer.text}
  /\ UNCHANGED <<store, heap, nextRef, pastStates, futureStates, debounceTimer, lastCall,
                 loadedDocument, conversion, savedText, task>>

\* A run that delivers its result only if its text is still the current one.
ValidationResolvesIfCurrent(yamlString) ==
  /\ yamlString \in running
  /\ running' = running \ {yamlString}
  /\ IF store.yamlDocument # 0 /\ yamlString = stringifyYaml(heap[store.yamlDocument])
       THEN \E result \in {validateSpec(yamlString)} : setValidation(result)
       ELSE UNCHANGED <<store, pastStates, futureStates>>
  /\ UNCHANGED <<heap, nextRef, debounceTimer, timers, lastCall, loadedDocument, conversion, savedText, task>>

\* A run resolves: result = await validateSpec(yamlString), and
\* onResult(result) is setValidation.
ValidationResolves(yamlString) ==
  /\ yamlString \in running
  /\ running' = running \ {yamlString}
  /\ \E result \in {validateSpec(yamlString)} : setValidation(result)
  /\ UNCHANGED <<heap, nextRef, debounceTimer, timers, lastCall, loadedDocument, conversion, savedText, task>>

\* ---- store/actions/file-actions.ts: one file action at a time, in steps
\* from one await to the next.
\* A save() that serializes the document as it was loaded.
saveOfLoaded ==
  IF store.yamlDocument = 0 THEN [null |-> TRUE, text |-> <<>>]
  ELSE [null |-> FALSE, text |-> stringifyYaml(heap[loadedDocument])]

\* save(): null without a document, else its string output.
save ==
  IF store.yamlDocument = 0 THEN [null |-> TRUE, text |-> <<>>]
  ELSE [null |-> FALSE, text |-> stringifyYaml(heap[store.yamlDocument])]

getYamlString ==
  IF store.yamlDocument = 0 THEN [null |-> TRUE, text |-> <<>>]
  ELSE [null |-> FALSE, text |-> stringifyYaml(heap[store.yamlDocument])]

\* !yamlString
Falsy(yamlString) == yamlString.null \/ yamlString.text = <<>>

Waiting(op, pc, confirmed, path, yamlString) ==
  [op |-> op, pc |-> pc, confirmed |-> confirmed, path |-> path, yamlString |-> yamlString]

\* A step of a file action that calls nothing of the store.
StoreUntouched ==
  UNCHANGED <<store, heap, nextRef, pastStates, futureStates, debounceTimer, timers, running,
              lastCall, loadedDocument, conversion, savedText>>

Return == task' = NoTask /\ StoreUntouched

\* What follows `if (!canProceed) return` in the four loading actions.
Proceed(op, path, confirmed) ==
  IF op = "newSpecAction" THEN newSpec /\ task' = NoTask
  ELSE /\ task' = Waiting(op,
                          IF op = "openFileAction" THEN "open"
                          ELSE IF op = "openRecentFileAction" THEN "readTextFile"
                          ELSE "readText",
                          confirmed, path, <<>>)
       /\ StoreUntouched

\* await confirmUnsavedChanges() at the start of a loading action: true at
\* once when the state is clean, else the answer of the confirm dialog.
confirmUnsavedChanges(op, path) ==
  /\ task = NoTask
  /\ IF ~store.isDirty THEN Proceed(op, path, FALSE)
     ELSE task' = Waiting(op, "confirm", FALSE, path, <<>>) /\ StoreUntouched

openFileAction == confirmUnsavedChanges("openFileAction", "")

openRecentFileAction(path) == confirmUnsavedChanges("openRecentFileAction", path)

newSpecAction == confirmUnsavedChanges("newSpecAction", "")

\* pasteFromClipboardAction up to its first await that does not resolve at once.
pasteFromClipboardActionStarts == confirmUnsavedChanges("pasteFromClipboardAction", "")

\* The confirm dialog is answered.
ConfirmResolves(answer) ==
  /\ task.pc = "confirm"
  /\ IF answer THEN Proceed(task.op, task.path, TRUE) ELSE Return

\* The open dialog is answered: a path, or null.
OpenDialogResolves(selected) ==
  /\ task.pc = "open"
  /\ IF selected = Null THEN Return
     ELSE task' = [task EXCEPT !.pc = "readTextFile", !.path = selected] /\ StoreUntouched

\* readTextFile resolves: openFile(path, content); what it throws is caught.
ReadTextFileResolves(content) ==
  /\ task.pc = "readTextFile"
  /\ openFile(task.path, content)
  /\ task' = NoTask

\* readText resolves: openFile("", text) unless the clipboard is empty.
ReadTextResolves(text) ==
  /\ task.pc = "readText"
  /\ IF text = <<>> THEN Return
     ELSE openFile("", text) /\ task' = NoTask

\* saveAsAction up to the save dialog.
SaveAs ==
  LET yamlString == save
  IN IF Falsy(yamlString) THEN Return
     ELSE task' = Waiting("saveAsAction", "save", FALSE, "", yamlString.text) /\ StoreUntouched

saveAsAction == task = NoTask /\ SaveAs

\* saveFileAction up to the write: the text is taken before the await.
saveFileAction ==
  /\ task = NoTask
  /\ LET filePath == store.filePath
         yamlString == save
     IN IF Falsy(yamlString) THEN Return
        ELSE IF filePath \in {Null, ""} THEN SaveAs
        ELSE task' = Waiting("saveFileAction", "writeTextFile", FALSE, filePath, yamlString.text)
             /\ StoreUntouched

\* The save dialog is answered: a path, or null.
SaveDialogResolves(path) ==
  /\ task.pc = "save"
  /\ IF path = Null THEN Return
     ELSE task' = [task EXCEPT !.pc = "writeTextFile", !.path = path] /\ StoreUntouched

\* writeTextFile resolves: the text taken before it is on the file; markClean().
WriteTextFileResolves ==
  /\ task.pc = "writeTextFile"
  /\ savedText' = task.yamlString
  /\ Install(set(store, pastStates, futureStates, [isDirty |-> FALSE]))
  /\ lastCall' = Call("markClean", "ok")
  /\ task' = NoTask
  /\ UNCHANGED <<heap, nextRef, debounceTimer, timers, running, loadedDocument, conversion>>

copyToClipboardAction ==
  /\ task = NoTask
  /\ LET yamlString == getYamlString
     IN IF Falsy(yamlString) THEN Return
        ELSE task' = Waiting("copyToClipboardAction", "writeText", FALSE, "", yamlString.text)
             /\ StoreUntouched

WriteTextResolves ==
  /\ task.pc = "writeText"
  /\ Return

\* A run allocates at most max objects: a call that would allocate one more
\* is not taken.
WithinRefs(max) == nextRef' <= max + 1

Loads(max) ==
  \/ \E path \in FilePaths, content \in FileContents :
       openFile(path, content) /\ WithinRefs(max) /\ UNCHANGED task
  \/ \E text \in ClipboardTexts : pasteFromClipboardAction(text) /\ WithinRefs(max)
  \/ newSpec /\ WithinRefs(max) /\ UNCHANGED task

Edits(max) ==
  \/ \E in \in UpdateInputs : updateField(in[1], in[2]) /\ WithinRefs(max)
  \/ \E in \in AddInputs : addElement(in[1], in[2], in[3]) /\ WithinRefs(max)
  \/ \E path \in RemovePaths : removeElement(path) /\ WithinRefs(max)

\* The coordinator and its history: the loads, the edits, and the calls that
\* change no document. Validation is scheduled; its timer does not fire here.
Next ==
  \/ Loads(MaxRefs)
  \/ Edits(MaxRefs)
  \/ \E path \in SelectablePaths : setSelectedPath(path)
  \/ markClean
  \/ undoAction
  \/ redoAction

Spec == Init /\ [][Next]_vars

\* The same calls, recorded, over shorter runs.
InitCalls ==
  /\ store = initialState
  /\ heap = <<>>
  /\ nextRef = 1
  /\ pastStates = <<>>
  /\ futureStates = <<>>
  /\ debounceTimer = NoTimer
  /\ timers = {}
  /\ running = {}
  /\ lastCall = [op |-> "init", outcome |-> "ok"]
  /\ loadedDocument = 0
  /\ conversion = NoConversion
  /\ savedText = <<>>
  /\ task = NoTask

NextCalls ==
  \/ Loads(MaxCallRefs)
  \/ Edits(MaxCallRefs)
  \/ \E path \in SelectablePaths : setSelectedPath(path)
  \/ markClean
  \/ undoAction
  \/ redoAction

SpecCalls == InitCalls /\ [][NextCalls]_vars

\* The validation pipeline under the edits of one document: the timer fires,
\* runs resolve, and the calls that change no document interleave.
NextValidation ==
  \/ openFile("/test/file.yaml", VALID_YAML) /\ WithinRefs(MaxValidatedRefs) /\ UNCHANGED task
  \/ \E in \in AddInputs : addElement(in[1], in[2], in[3]) /\ WithinRefs(MaxValidatedRefs)
  \/ \E path \in ValidatedRemovals : removeElement(path) /\ WithinRefs(MaxValidatedRefs)
  \/ \E path \in SelectablePaths : setSelectedPath(path)
  \/ markClean
  \/ undoAction
  \/ redoAction
  \/ \E timer \in timers : Cardinality(running) < MaxRunning /\ TimerFires(timer)
  \/ \E yamlString \in running : ValidationResolves(yamlString)

SpecValidation == Init /\ [][NextValidation]_vars

\* The pipeline with the scheduling of the runtime: a timer that stays set
\* fires, and a run in flight resolves (validateSpec catches what it throws).
NextValidationLive ==
  \/ openFile("/test/file.yaml", VALID_YAML) /\ WithinRefs(MaxValidatedRefs) /\ UNCHANGED task
  \/ \E in \in AddInputs : addElement(in[1], in[2], in[3]) /\ WithinRefs(MaxValidatedRefs)
  \/ \E path \in ValidatedRemovals : removeElement(path) /\ WithinRefs(MaxValidatedRefs)
  \/ undoAction
  \/ \E timer \in timers : Cardinality(running) < MaxRunning /\ TimerFires(timer)
  \/ \E yamlString \in running : ValidationResolves(yamlString)

SpecValidationLive ==
  /\ Init
  /\ [][NextValidationLive]_vars
  /\ WF_vars(\E timer \in timers : Cardinality(running) < MaxRunning /\ TimerFires(timer))
  /\ WF_vars(\E yamlString \in running : ValidationResolves(yamlString))

\* Loads and edits only, with runs that overlap and resolve in any order.
NextOverlap ==
  \/ openFile("/test/file.yaml", VALID_YAML) /\ WithinRefs(MaxValidatedRefs) /\ UNCHANGED task
  \/ NoDocument /\ newSpec /\ WithinRefs(MaxValidatedRefs) /\ UNCHANGED task
  \/ \E in \in AddInputs : addElement(in[1], in[2], in[3]) /\ WithinRefs(MaxValidatedRefs)
  \/ \E path \in ValidatedRemovals : removeElement(path) /\ WithinRefs(MaxValidatedRefs)
  \/ \E timer \in timers : Cardinality(running) < MaxOverlap /\ TimerFires(timer)
  \/ \E yamlString \in running : ValidationResolves(yamlString)

SpecOverlap == Init /\ [][NextOverlap]_vars

\* The pipeline while the document goes away: by reset(), by undo().
NextDocumentGone ==
  \/ openFile("/test/file.yaml", VALID_YAML) /\ WithinRefs(MaxValidatedRefs) /\ UNCHANGED task
  \/ \E path \in ValidatedRemovals : removeElement(path) /\ WithinRefs(MaxValidatedRefs)
  \/ reset
  \/ undoAction
  \/ \E timer \in timers : Cardinality(running) < MaxRunning /\ TimerFires(timer)
  \/ \E yamlString \in running : ValidationResolves(yamlString)

SpecDocumentGone == Init /\ [][NextDocumentGone]_vars

\* One document edited over and over, for the size of the history.
NextLong ==
  \/ NoDocument /\ newSpec /\ UNCHANGED task
  \/ ~NoDocument /\ updateField(Title, "A") /\ WithinRefs(LongRefs)
  \/ \E path \in SelectablePaths : setSelectedPath(path)

SpecLong == Init /\ [][NextLong]_vars

\* The coordinator alone: loads, resets, and edits that reach the ends of the
\* input space (an absent value, the root path).
NextCoordinator ==
  \/ openFile("/test/file.yaml", VALID_YAML) /\ WithinRefs(MaxCoordinatorRefs) /\ UNCHANGED task
  \/ newSpec /\ WithinRefs(MaxCoordinatorRefs) /\ UNCHANGED task
  \/ \E in \in CoordinatorUpdates : updateField(in[1], in[2]) /\ WithinRefs(MaxCoordinatorRefs)
  \/ \E path \in CoordinatorRemovals : removeElement(path) /\ WithinRefs(MaxCoordinatorRefs)
  \/ markClean
  \/ reset
  \/ undoAction
  \/ redoAction

SpecCoordinator == Init /\ [][NextCoordinator]_vars

\* Saving: one file opened, edited, saved and copied, with undo and redo.
NextSave ==
  \/ \E path \in FilePaths : openRecentFileAction(path) /\ WithinRefs(MaxSaveRefs)
  \/ \E answer \in BOOLEAN : ConfirmResolves(answer) /\ WithinRefs(MaxSaveRefs)
  \/ ReadTextFileResolves(VALID_YAML) /\ WithinRefs(MaxSaveRefs)
  \/ \E in \in UpdateInputs : updateField(in[1], in[2]) /\ WithinRefs(MaxSaveRefs)
  \/ saveFileAction
  \/ WriteTextFileResolves
  \/ copyToClipboardAction
  \/ WriteTextResolves
  \/ undoAction
  \/ redoAction

SpecSave == Init /\ [][NextSave]_vars

\* The file actions that replace the document, with edits and saves between
\* their steps.
NextFileActions ==
  \/ openFileAction /\ WithinRefs(MaxFileRefs)
  \/ \E path \in FilePaths : openRecentFileAction(path) /\ WithinRefs(MaxFileRefs)
  \/ newSpecAction /\ WithinRefs(MaxFileRefs)
  \/ pasteFromClipboardActionStarts /\ WithinRefs(MaxFileRefs)
  \/ \E answer \in BOOLEAN : ConfirmResolves(answer) /\ WithinRefs(MaxFileRefs)
  \/ \E selected \in FilePaths \cup {Null} : OpenDialogResolves(selected)
  \/ ReadTextFileResolves(VALID_YAML) /\ WithinRefs(MaxFileRefs)
  \/ \E text \in ClipboardTexts \cup {<<>>} : ReadTextResolves(text) /\ WithinRefs(MaxFileRefs)
  \/ updateField(Title, "A") /\ WithinRefs(MaxFileRefs)
  \/ saveFileAction
  \/ saveAsAction
  \/ \E path \in FilePaths \cup {Null} : SaveDialogResolves(path)
  \/ WriteTextFileResolves

SpecFileActions == Init /\ [][NextFileActions]_vars

\* validateSpec on its own: a run is in flight on any text, and resolves.
InitValidate ==
  /\ store = initialState
  /\ heap = <<>>
  /\ nextRef = 1
  /\ pastStates = <<>>
  /\ futureStates = <<>>
  /\ debounceTimer = NoTimer
  /\ timers = {}
  /\ running \in {{text} : text \in ValidateTexts}
  /\ lastCall = NoCalls
  /\ loadedDocument = 0
  /\ conversion = NoConversion
  /\ savedText = <<>>
  /\ task = NoTask

NextValidate == \E yamlString \in running : ValidationResolves(yamlString)

SpecValidate == InitValidate /\ [][NextValidate]_vars

\* The characters of a segment: the two the encoding escapes, the two digits
\* it escapes them with, and a plain one.
Chars == {"~", "/", "0", "1", "a"}

\* Segments: every string of up to two characters (the empty one included),
\* ~ and / around an escape, and the segments of the round-trip tests.
Segments ==
  {<<>>} \cup {<<c>> : c \in Chars} \cup {<<c, d>> : c \in Chars, d \in Chars}
    \cup {<<"~", "0", "1">>, <<"~", "~", "1">>, <<"/", "~", "0">>,
          <<"a", "~", "b", "/", "c">>, <<"d", "/", "e", "~", "f">>}

RECURSIVE PathsOfLen(_)
PathsOfLen(n) ==
  IF n = 0 THEN {<<>>}
  ELSE {Append(path, segment) : path \in PathsOfLen(n - 1), segment \in Segments}

PathInputs == UNION {PathsOfLen(n) : n \in 0..MaxPathLen}

\* Path addressing on its own: a path is encoded, the pointer decoded.
InitPaths ==
  /\ store = initialState
  /\ heap = <<>>
  /\ nextRef = 1
  /\ pastStates = <<>>
  /\ futureStates = <<>>
  /\ debounceTimer = NoTimer
  /\ timers = {}
  /\ running = {}
  /\ lastCall = NoCalls
  /\ loadedDocument = 0
  /\ conversion \in {[stage |-> "path", path |-> path, pointer |-> <<>>, decoded |-> <<>>] :
                        path \in PathInputs}
  /\ savedText = <<>>
  /\ task = NoTask

Encode ==
  /\ conversion.stage = "path"
  /\ conversion' = [conversion EXCEPT !.stage = "pointer",
                                       !.pointer = pathToPointer(conversion.path)]
  /\ UNCHANGED <<store, heap, nextRef, pastStates, futureStates, debounceTimer, timers, running,
                 lastCall, loadedDocument, savedText, task>>

Decode ==
  /\ conversion.stage = "pointer"
  /\ conversion' = [conversion EXCEPT !.stage = "decoded",
                                       !.decoded = pointerToPath(conversion.pointer)]
  /\ UNCHANGED <<store, heap, nextRef, pastStates, futureStates, debounceTimer, timers, running,
                 lastCall, loadedDocument, savedText, task>>

NextPaths == Encode \/ Decode

SpecPaths == InitPaths /\ [][NextPaths]_vars

\* =================================================================== claims
\* The documented size of the history (`limit: 50`).
HistoryLimit == 50

\* A step of one of the three edits that installed a new document.
EditApplied ==
  /\ \/ \E in \in UpdateInputs : updateField(in[1], in[2])
     \/ \E in \in AddInputs : addElement(in[1], in[2], in[3])
     \/ \E path \in RemovePaths \cup ValidatedRemovals : removeElement(path)
  /\ store'.yamlDocument # store.yamlDocument

\* A step of open, new or paste that installed a new document.
LoadSucceeded ==
  /\ \/ \E path \in FilePaths, content \in FileContents : openFile(path, content)
     \/ \E text \in ClipboardTexts : pasteFromClipboardAction(text)
     \/ newSpec
  /\ loadedDocument' # loadedDocument

Resolves(path) == path \in DOMAIN store.spec.value.map

\* The projections along the history: past, current, then the undone ones.
ProjectionTimeline(past, state, future) ==
  [i \in 1..Len(past) |-> past[i].spec] \o <<state.spec>> \o
  Reverse([i \in 1..Len(future) |-> future[i].spec])

\* C1: Undo inverse. For every loaded state S and every applied edit E
\* (updateField, addElement, or a removeElement that removed something), one
\* undo() after E yields the projection and the dirty flag of S.
C1_UndoInverse ==
  [][(EditApplied /\ ~NoDocument) =>
       LET undone == undo(store', pastStates', futureStates')
       IN /\ undone.store.spec = store.spec
          /\ undone.store.isDirty = store.isDirty
          /\ undone.store.yamlDocument = store.yamlDocument]_vars

\* C1 witness: an edit of a clean document has been undone: the edited, dirty
\* state waits on the redo stack and the current state is clean again.
C1_Witness ==
  /\ ~NoDocument
  /\ futureStates # <<>>
  /\ Last(futureStates).isDirty
  /\ Last(futureStates).spec.value # store.spec.value
  /\ ~store.isDirty

\* C2: Undo/redo chain. The projections past, current, undone form one
\* timeline: an applied edit appends to the part up to the current state, and
\* undo() and redo() move the current position one step back or forth along
\* it without changing it; so k undo() after n edits reach s(n-k) and j
\* redo() then reach s(n-k+j).
C2_UndoRedoChain ==
  [][/\ (undoAction /\ pastStates # <<>>) =>
          /\ ProjectionTimeline(pastStates', store', futureStates')
               = ProjectionTimeline(pastStates, store, futureStates)
          /\ Len(pastStates') = Len(pastStates) - 1
     /\ (redoAction /\ futureStates # <<>>) =>
          /\ ProjectionTimeline(pastStates', store', futureStates')
               = ProjectionTimeline(pastStates, store, futureStates)
          /\ Len(pastStates') = Len(pastStates) + 1
     /\ EditApplied =>
          /\ ProjectionTimeline(pastStates', store', futureStates')
               = Append(ProjectionTimeline(pastStates, store, <<>>), store'.spec)
          /\ Len(pastStates') = Len(pastStates) + 1]_vars

\* C2 witness: two edits of a loaded document, two undo() and one redo(): the
\* loaded state is the newest past state, the first edit is current and the
\* second edit is the one left to redo.
C2_Witness ==
  /\ Len(pastStates) >= 2
  /\ Len(futureStates) = 1
  /\ Last(pastStates).yamlDocument = loadedDocument
  /\ store.yamlDocument = loadedDocument + 1
  /\ Last(futureStates).yamlDocument = loadedDocument + 2
  /\ Title \in DOMAIN store.spec.value.map
  /\ store.spec.value.map[Title] = "A"
  /\ Last(futureStates).spec.value.map[Title] = "B"

\* C3: immediately after any successful open, new or paste, from any prior
\* state, the past stack and the redo stack are empty.
C3_HistoryClearedOnLoad ==
  [][LoadSucceeded => (pastStates' = <<>> /\ futureStates' = <<>>)]_vars

\* C4: History never spans unrelated documents: the current document is never
\* older than the one the most recent successful load installed (nor the
\* no-document state once a load succeeded), whatever undo() and redo() do.
C4_HistoryWithinLoadedDocument == store.yamlDocument >= loadedDocument

\* C5: Equality gating. A state change that does not replace the projection
\* (a delivered validation result, setSelectedPath, markClean) pushes no
\* history entry and leaves the redo stack alone.
C5_EqualityGating ==
  [][((\E path \in SelectablePaths : setSelectedPath(path))
        \/ markClean
        \/ (\E yamlString \in running : ValidationResolves(yamlString)))
       => UNCHANGED <<pastStates, futureStates>>]_vars

\* C5 witness: with both stacks non-empty, a validation result with errors
\* has been delivered, a node is selected and the dirty flag was cleared.
C5_Witness ==
  /\ pastStates # <<>>
  /\ futureStates # <<>>
  /\ store.validation # emptyValidation
  /\ store.selectedPath # NoPath
  /\ ~store.isDirty
  /\ store.yamlDocument > loadedDocument

\* C6: every applied edit pushes exactly the pre-edit state onto the past
\* stack and empties the redo stack.
C6_EditPushesAndClearsRedo ==
  [][EditApplied =>
       /\ pastStates' = Append(pastStates, partialize(store))
       /\ futureStates' = <<>>]_vars

\* C6 witness: an edit after an undo(): some document made by an earlier edit
\* is neither current nor on a stack any more, and the redo stack is empty.
C6_Witness ==
  /\ futureStates = <<>>
  /\ store.isDirty
  /\ \E d \in 1..Len(heap) :
       /\ d > loadedDocument
       /\ d < store.yamlDocument
       /\ \A i \in 1..Len(pastStates) : pastStates[i].yamlDocument # d

\* C7: undo() and redo() restore projection, document and dirty flag from the
\* snapshot and leave selectedPath, filePath and the stored validation result
\* as they were.
C7_UndoRedoFrame ==
  [][/\ (undoAction /\ pastStates # <<>>) =>
          /\ partialize(store') = Last(pastStates)
          /\ store'.selectedPath = store.selectedPath
          /\ store'.filePath = store.filePath
          /\ store'.validation = store.validation
     /\ (redoAction /\ futureStates # <<>>) =>
          /\ partialize(store') = Last(futureStates)
          /\ store'.selectedPath = store.selectedPath
          /\ store'.filePath = store.filePath
          /\ store'.validation = store.validation]_vars

\* C7 witness: after an undo() the selected node is not in the restored
\* document, and the stored validation result is still the one with errors.
C7_Witness ==
  /\ futureStates # <<>>
  /\ ~NoDocument
  /\ store.selectedPath = <<"paths", "/x">>
  /\ ~Resolves(<<"paths", "/x">>)
  /\ store.validation # emptyValidation
  /\ store.filePath = "/test/file.yaml"

\* C8: History size bound: the past stack never holds more than the bound
\* (50) entries.
C8_HistoryBounded == Len(pastStates) <= HistoryLimit

\* C9: removeElement(path) on a loaded document in which path does not
\* resolve changes nothing: projection, document, dirty flag, selection,
\* validation and both stacks stay, and no validation is scheduled.
C9_RemoveMissingIsNoOp ==
  [][\A path \in RemovePaths :
       (removeElement(path) /\ ~NoDocument /\ ~Resolves(path)) =>
         UNCHANGED <<store, heap, pastStates, futureStates, debounceTimer, timers, running>>]_vars

\* C9 witness: removeElement returned without deleting, on a loaded, clean
\* document with a history.
C9_Witness ==
  /\ lastCall = [op |-> "removeElement", outcome |-> "not deleted"]
  /\ ~NoDocument
  /\ ~store.isDirty
  /\ pastStates # <<>>
  /\ futureStates # <<>>

\* C10: a failed open (text that does not parse, or a version outside 3.1)
\* raises an error and leaves projection, document, filePath, dirty flag,
\* selection, validation and both stacks as they were, and schedules no
\* validation.
C10_FailedOpenLeavesState ==
  [][\A path \in FilePaths, content \in {INVALID_YAML, SCALAR_YAML, OLD_YAML} :
       openFile(path, content) =>
         /\ UNCHANGED <<store, heap, pastStates, futureStates, debounceTimer, timers, running>>
         /\ lastCall'.outcome \in {"throw: Failed to parse YAML",
                                   "throw: Not a valid OpenAPI 3.1 specification"}]_vars

\* C10 witness: an open of a 3.0 document threw while an edited document with
\* a history was loaded.
C10_Witness ==
  /\ lastCall = [op |-> "openFile", outcome |-> "throw: Not a valid OpenAPI 3.1 specification"]
  /\ ~NoDocument
  /\ store.isDirty
  /\ pastStates # <<>>

\* A snapshot {spec, yamlDocument, ...} whose projection is null exactly when
\* its document is, and is otherwise the document's toJSON by value.
ProjectionMatchesDocument(state) ==
  /\ (state.spec.ref = 0) <=> (state.yamlDocument = 0)
  /\ state.yamlDocument # 0 => state.spec.value = documentToSpec(heap[state.yamlDocument])

\* C11: in every reachable state (after any sequence of open, new, edits,
\* undo, redo, reset) the projection is null exactly when the document is
\* null, and otherwise equals the document's projection by value; the same
\* holds for every snapshot on the past and redo stacks.
C11_ProjectionMatchesDocument ==
  /\ ProjectionMatchesDocument(store)
  /\ \A i \in 1..Len(pastStates) : ProjectionMatchesDocument(pastStates[i])
  /\ \A i \in 1..Len(futureStates) : ProjectionMatchesDocument(futureStates[i])

\* A step of one of the three edits, applied or not.
EditCalled ==
  \/ \E in \in UpdateInputs : updateField(in[1], in[2])
  \/ \E in \in AddInputs : addElement(in[1], in[2], in[3])
  \/ \E path \in RemovePaths : removeElement(path)

Empty == store.spec.ref = 0 /\ store.yamlDocument = 0

\* C13: with no document loaded, updateField, addElement and removeElement
\* are complete no-ops: the state stays Empty with isDirty false, no history
\* entry is pushed, the redo stack stays and no validation is scheduled.
C13_EditsOfEmptyAreNoOps ==
  [][(Empty /\ EditCalled) =>
       /\ UNCHANGED <<store, heap, pastStates, futureStates, debounceTimer, timers, running>>
       /\ Empty'
       /\ ~store'.isDirty
       /\ lastCall'.outcome = "no document"]_vars

\* C13 witness: addElement returned at its guard in the Empty state an undo()
\* of a load went back to, the loaded document still waiting to be redone.
C13_Witness ==
  /\ lastCall = [op |-> "addElement", outcome |-> "no document"]
  /\ Empty
  /\ futureStates # <<>>
  /\ loadedDocument # 0

\* A step in which validateSpecDebounced was called: a new handle is stored.
RequestMade == debounceTimer' # debounceTimer

\* A step in which a validation run started.
RunStarted == running' # running /\ running \subseteq running'

\* C14: at most one validation timer is pending at any time; a request
\* replaces the pending timer, a replaced timer never comes back, and the
\* only timer that ever fires is the one of the last request, so a replaced
\* request's text is never validated.
C14_DebounceCoalescing ==
  [][/\ Cardinality(timers') <= 1
     /\ RequestMade =>
          timers' = {[id |-> debounceTimer',
                      text |-> stringifyYaml(heap'[store'.yamlDocument])]}
     /\ \A t \in timers' : t \in timers \/ (RequestMade /\ t.id = debounceTimer')
     /\ RunStarted =>
          \E t \in timers :
            /\ t.id = debounceTimer
            /\ \A u \in timers : u.id <= t.id
            /\ running' = running \cup {t.text}
            /\ timers' = {}]_vars

\* C14 witness: after a burst of at least two requests (a load and an edit)
\* the timer of the last one has fired: its text, the current document's, is
\* the one being validated and no timer is left.
C14_Witness ==
  /\ debounceTimer >= 2
  /\ timers = {}
  /\ store.yamlDocument = debounceTimer
  /\ store.yamlDocument > loadedDocument
  /\ running = {stringifyYaml(heap[store.yamlDocument])}

\* C15: whenever a validation run completes, its result replaces the stored
\* validation result wholesale and nothing else of the state changes, whatever
\* was edited after the run's text was captured; a request leaves the runs in
\* flight alone.
C15_LastWriterWins ==
  [][/\ \A yamlString \in running :
          ValidationResolves(yamlString) =>
            /\ store'.validation = validateSpec(yamlString)
            /\ store' = [store EXCEPT !.validation = validateSpec(yamlString)]
     /\ RequestMade => running' = running]_vars

\* C15 witness: the stored result (with errors) is that of a text captured
\* before the last edit: it is not the result of the current document, whose
\* own request is still pending.
C15_Witness ==
  /\ ~NoDocument
  /\ store.isDirty
  /\ store.validation # emptyValidation
  /\ store.validation # validateSpec(stringifyYaml(heap[store.yamlDocument]))
  /\ \E t \in timers : t.text = stringifyYaml(heap[store.yamlDocument])

\* C16: every undo() or redo() that restores a document schedules a
\* validation of the restored document.
C16_UndoRedoRevalidate ==
  [][(/\ \/ undoAction /\ pastStates # <<>>
         \/ redoAction /\ futureStates # <<>>
      /\ store'.yamlDocument # 0
      /\ store'.yamlDocument # store.yamlDocument) =>
       /\ RequestMade
       /\ \E t \in timers' :
            t.id = debounceTimer' /\ t.text = stringifyYaml(heap[store'.yamlDocument])]_vars

\* C17: every validation result ever stored in the coordinator, whatever
\* branch of validateSpec produced it (syntax errors, a root that is no
\* object, success, failure with or without details), has counts.error +
\* counts.warning + counts.info equal to errors.length.
C17_CountsMatchErrors ==
  store.validation.counts.error + store.validation.counts.warning
    + store.validation.counts.info = Len(store.validation.errors)

\* C17 witness: a run delivered the result of a failure with two details,
\* each at the path of its instance.
C17_Witness ==
  /\ running = {}
  /\ Len(store.validation.errors) = 2
  /\ store.validation.errors[1].path = <<(<<"info">>)>>
  /\ store.validation.errors[2].path = <<(<<"paths">>)>>
  /\ store.validation.counts.error = 2

\* A text validateSpec cannot parse: syntax errors, or a root that is no object.
Unparsable(yamlString) ==
  \/ YamlErrors(yamlString) # {}
  \/ toJSON(ComposeContents(yamlString)).kind # "object"

\* Every error of a result is of severity error and at the empty path.
AllAtRoot(result) ==
  \A i \in 1..Len(result.errors) :
    result.errors[i].severity = "error" /\ result.errors[i].path = <<>>

\* C18 as stated: a text that cannot be parsed (any number of syntax errors,
\* or a root that is no object) yields a result with exactly one error, of
\* severity error and with an empty path.
C18_OneSyntheticError ==
  [][\A yamlString \in running :
       (ValidationResolves(yamlString) /\ Unparsable(yamlString)) =>
         /\ Len(store'.validation.errors) = 1
         /\ AllAtRoot(store'.validation)]_vars

\* C18 as amended: a text that cannot be parsed yields a result with one error
\* per syntax error, or exactly one for a root that is no object: at least
\* one in all, each of severity error and with an empty path.
C18_ErrorPerSyntaxError ==
  [][\A yamlString \in running :
       (ValidationResolves(yamlString) /\ Unparsable(yamlString)) =>
         /\ Len(store'.validation.errors) =
              (IF YamlErrors(yamlString) # {} THEN Cardinality(YamlErrors(yamlString)) ELSE 1)
         /\ Len(store'.validation.errors) >= 1
         /\ AllAtRoot(store'.validation)]_vars

\* C18 witness: a run on a text with three syntax errors delivered three
\* errors at the root.
C18_Witness ==
  /\ running = {}
  /\ Len(store.validation.errors) = 3
  /\ AllAtRoot(store.validation)
  /\ store.validation.errors[1].message = "syntax"

\* C19: pointerToPath(pathToPointer(p)) equals p segment by segment for every
\* path p: the empty path, segments containing ~, /, both, and the literal
\* sequences ~0 and ~1.
C19_PathRoundTrip ==
  conversion.stage = "decoded" =>
    /\ Len(conversion.decoded) = Len(conversion.path)
    /\ \A i \in 1..Len(conversion.path) : conversion.decoded[i] = conversion.path[i]

\* C19 witness: the path of the literal segments ~1 and ~0 went through the
\* pointer /~01/~00 and back.
C19_Witness ==
  /\ conversion.stage = "decoded"
  /\ conversion.path = <<(<<"~", "1">>), (<<"~", "0">>)>>
  /\ conversion.pointer = <<"/", "~", "0", "1", "/", "~", "0", "0">>
  /\ conversion.decoded = conversion.path

\* C20: updateField(path, value) with an absent (undefined) value is a
\* delete: afterwards the projection has no entry at path, isDirty is true
\* and the pre-edit state is on the past stack.
C20_AbsentValueDeletes ==
  [][\A in \in CoordinatorUpdates :
       (in[2] = Undefined /\ ~NoDocument /\ updateField(in[1], in[2])) =>
         /\ in[1] \notin DOMAIN store'.spec.value.map
         /\ store'.isDirty
         /\ pastStates' = Append(pastStates, partialize(store))]_vars

\* C21: on a loaded document whose container at path has no entry key,
\* addElement(path, key, value) followed by removeElement([...path, key])
\* leaves a projection equal by value to the one before the add, with isDirty
\* true and two history entries pushed (the state before the add, then the
\* state with the entry).
C21_AddThenRemove ==
  [][\A in \in AddInputs :
       LET path == in[1]
           key == in[2]
           before == Last(pastStates)
           added == addToMap(heap, before.yamlDocument, path, key, in[3])
       IN (/\ pastStates # <<>>
           /\ ~NoDocument
           /\ before.yamlDocument # 0
           /\ Append(path, key) \notin DOMAIN before.spec.value.map
           /\ store.yamlDocument = before.yamlDocument + 1
           /\ added.ok
           /\ store.spec.value = documentToSpec(added.heap[before.yamlDocument])
           /\ removeElement(Append(path, key))) =>
            /\ store'.spec.value = before.spec.value
            /\ store'.isDirty
            /\ pastStates' = Append(pastStates, partialize(store))
            /\ Append(path, key) \in DOMAIN Last(pastStates').spec.value.map]_vars

\* C21 witness: "/x" was added under paths and removed again: the current
\* projection lacks it and equals the one two entries back, the newest past
\* state has it.
C21_Witness ==
  /\ Len(pastStates) >= 2
  /\ store.isDirty
  /\ <<"paths", "/x">> \in DOMAIN Last(pastStates).spec.value.map
  /\ <<"paths", "/x">> \notin DOMAIN store.spec.value.map
  /\ store.spec.value = pastStates[Len(pastStates) - 1].spec.value
  /\ store.spec.ref # pastStates[Len(pastStates) - 1].spec.ref

\* C22: no operation changes the content of a Document that exists: the
\* document that was current and the documents of the snapshots on both
\* stacks serialize the same at every later point.
C22_SnapshotsImmutable ==
  [][/\ Len(heap') >= Len(heap)
     /\ \A d \in 1..Len(heap) :
          /\ heap'[d] = heap[d]
          /\ stringifyYaml(heap'[d]) = stringifyYaml(heap[d])]_vars

\* C22 witness: after two edits and an undo() the loaded document, on the
\* past stack, still serializes to the text it was loaded from, and differs
\* from the current document and the undone one.
C22_Witness ==
  /\ pastStates # <<>>
  /\ futureStates # <<>>
  /\ Last(pastStates).yamlDocument = loadedDocument
  /\ loadedDocument # 0
  /\ stringifyYaml(heap[loadedDocument]) \in {VALID_YAML, SPEC_TEMPLATE} \cup ClipboardTexts
  /\ heap[store.yamlDocument] # heap[loadedDocument]
  /\ heap[Last(futureStates).yamlDocument] # heap[store.yamlDocument]

\* C23: reset() returns every coordinator field to its initial value and
\* leaves the history alone: the past stack and the redo stack are the same
\* after reset() as before it.
C23_ResetKeepsHistory ==
  [][reset =>
       /\ store' = initialState
       /\ UNCHANGED <<pastStates, futureStates>>]_vars

\* C24: filePath is null after newSpec and after a paste from the clipboard,
\* and is the opened path after a successful open of a file; edits, undo()
\* and redo() never change filePath.
C24_FileIdentity ==
  [][/\ (newSpec /\ loadedDocument' # loadedDocument) => store'.filePath = Null
     /\ \A text \in ClipboardTexts :
          (pasteFromClipboardAction(text) /\ loadedDocument' # loadedDocument) =>
            store'.filePath = Null
     /\ \A path \in FilePaths, content \in FileContents :
          (openFile(path, content) /\ loadedDocument' # loadedDocument) =>
            store'.filePath = path
     /\ (EditCalled \/ undoAction \/ redoAction) => store'.filePath = store.filePath]_vars

\* A file action has taken the text to write, from save() or getYamlString().
Serialized(op) == task = NoTask /\ task'.op = op

\* C25: save() and getYamlString() are pure reads: they return null exactly
\* when no document is loaded, else the serialization of the current
\* document with every edit applied to it, and they change no coordinator
\* field, no history stack and no validation request.
C25_SerializationIsPureRead ==
  /\ [][(Serialized("saveFileAction") \/ Serialized("copyToClipboardAction")) =>
          /\ store.yamlDocument # 0
          /\ task'.yamlString = stringifyYaml(heap[store.yamlDocument])
          /\ documentToSpec(parseYaml(task'.yamlString).contents) = store.spec.value
          /\ UNCHANGED <<store, heap, pastStates, futureStates, debounceTimer, timers, running>>]_vars
  /\ [](task = NoTask =>
          /\ store.yamlDocument = 0 => ~ENABLED (saveFileAction /\ task' # NoTask)
          /\ store.yamlDocument = 0 => ~ENABLED (copyToClipboardAction /\ task' # NoTask)
          /\ store.yamlDocument # 0 => ENABLED (saveFileAction /\ task' # NoTask)
          /\ store.yamlDocument # 0 => ENABLED (copyToClipboardAction /\ task' # NoTask))

\* C25 witness: saveFileAction holds the text of an edited document, which
\* is not the text the file was loaded from, and the state is still dirty.
C25_Witness ==
  /\ task.op = "saveFileAction"
  /\ task.pc = "writeTextFile"
  /\ store.isDirty
  /\ store.yamlDocument # loadedDocument
  /\ task.yamlString # savedText
  /\ task.yamlString = stringifyYaml(heap[store.yamlDocument])

\* C27: clean means saved: whenever a document is loaded and isDirty is
\* false, the serialization of the current document is the text most
\* recently loaded or written by a save; also across a save followed by
\* undo() or redo(), and across an edit made while saveFileAction awaits
\* its write.
C27_CleanMeansSaved ==
  (store.yamlDocument # 0 /\ ~store.isDirty) =>
    stringifyYaml(heap[store.yamlDocument]) = savedText

\* The user said yes to discarding the changes: earlier in the file action
\* that takes the step, or with the step itself.
UserConfirmed == task.confirmed \/ (task.pc = "confirm" /\ ConfirmResolves(TRUE))

\* C28: openFileAction, openRecentFileAction, newSpecAction and
\* pasteFromClipboardAction replace the document only if, at the moment of
\* the replacement, isDirty is false or the user confirmed; also when edits
\* are applied while the action awaits the confirmation, a dialog, a file
\* read or a clipboard read.
C28_NoDiscardWithoutConfirmation ==
  [][loadedDocument' # loadedDocument => (~store.isDirty \/ UserConfirmed)]_vars

\* The timer of request id is set; its text is that of document id.
Pending(id) == \E timer \in timers : timer.id = id /\ timer.text = stringifyYaml(heap[id])

\* The run over the text of request id completed and its result is stored.
Delivered(id) ==
  /\ id <= Len(heap)
  /\ \A timer \in timers : timer.id # id
  /\ stringifyYaml(heap[id]) \notin running
  /\ store.validation = validateSpec(stringifyYaml(heap[id]))

\* C26: with a fair timer and validator, after a request made by an edit or
\* a load and followed by no further request, a run over the text
\* serialized at that operation completes and its result is delivered; and
\* the editing operations stay enabled while a timer is pending or a run is
\* in flight.
C26_ValidationLiveness ==
  /\ \A id \in 1..MaxValidatedRefs : Pending(id) ~> (debounceTimer # id \/ Delivered(id))
  /\ []((~NoDocument /\ (timers # {} \/ running # {})) =>
          /\ ENABLED (\E in \in AddInputs : addElement(in[1], in[2], in[3]) /\ store'.isDirty)
          /\ ENABLED (\E path \in ValidatedRemovals : removeElement(path) /\ store'.isDirty))

\* C26 witness: the result of the run over the text of the last request, an
\* edit, is stored with its errors, and nothing is pending or in flight.
C26_Witness ==
  /\ timers = {}
  /\ running = {}
  /\ debounceTimer >= 2
  /\ store.yamlDocument = debounceTimer
  /\ Delivered(debounceTimer)
  /\ store.validation.errors # <<>>

\* No timer is pending and no run is in flight.
Quiescent == timers = {} /\ running = {}

\* C29: in runs of loads and edits only, whenever the pipeline is quiescent
\* the stored validation is validateSpec of the serialization of the current
\* document, whatever the order in which overlapping runs complete.
C29_FreshAtQuiescence ==
  (Quiescent /\ ~NoDocument) =>
    store.validation = validateSpec(stringifyYaml(heap[store.yamlDocument]))

\* C30: whenever no document is loaded the stored validation is empty, also
\* when a timer was pending or a run in flight when the document went away.
C30_NoDiagnosticsWithoutDocument ==
  NoDocument => store.validation = emptyValidation

====
